---------------------------- MODULE Spec2Model ----------------------------
(***************************************************************************)
(* project-service: the scope-based access layer (token issuance, token    *)
(* verification, owner derivation) in front of the Project Service, its    *)
(* SQL repository and the Project aggregate.                               *)
(*                                                                         *)
(* Python's None is written as the string "None" where the value is a      *)
(* string, and as the empty set where the value is a record, a number or a *)
(* boolean (an optional x is {} or {x}).                                   *)
(***************************************************************************)
EXTENDS Integers, Sequences, FiniteSets, TLC

VARIABLES
    now,     \* wall clock, whole seconds (the NumericDate of a JWT)
    store,   \* the projects table: project id -> {} or {ProjectRecord}
    issued,  \* the last exchange with POST /tokens (request and response)
    last,    \* the last exchange with a /projects endpoint
    aggregate,  \* the last call on ProjectServices or on a Project aggregate
                \* made directly: its input, the aggregate before and after
    requests,   \* the service calls in flight, each at one of its awaits
    deleted     \* the ids for which delete_project has returned True

vars == <<now, store, issued, last, aggregate, requests, deleted>>

None == "None"

(***************************************************************************)
(* Bounds of the model.                                                    *)
(***************************************************************************)
\* The clock runs over 0..MaxTime.
MaxTime == 3

(***************************************************************************)
(* Strings.  TLC cannot take a string apart, so every string a request     *)
(* can carry has its characters listed here.                               *)
(***************************************************************************)
UserA == "aaaaaaaa-aaaa-aaaa-aaaa-aaaaaaaaaaaa"
UserB == "bbbbbbbb-bbbb-bbbb-bbbb-bbbbbbbbbbbb"
Project1 == "11111111-1111-1111-1111-111111111111"
Project2 == "22222222-2222-2222-2222-222222222222"

HyphenedText(c) == [i \in 1..36 |-> IF i \in {9, 14, 19, 24} THEN "-" ELSE c]

Chars(s) ==
    CASE s = UserA -> HyphenedText("a")
      [] s = UserB -> HyphenedText("b")
      [] s = Project1 -> HyphenedText("1")
      [] s = Project2 -> HyphenedText("2")
      [] s = "u1" -> <<"u", "1">>
      [] s = "p1" -> <<"p", "1">>
      [] s = "" -> <<>>

HexDigits ==
    {"0", "1", "2", "3", "4", "5", "6", "7", "8", "9",
     "a", "b", "c", "d", "e", "f", "A", "B", "C", "D", "E", "F"}

KnownStrings == {UserA, UserB, Project1, Project2, "u1", "p1", ""}

\* uuid.UUID(value): hyphens are dropped, and what is left must be 32
\* hexadecimal digits; anything else raises ValueError.
uuid_UUID[s \in KnownStrings] ==
    LET hex == SelectSeq(Chars(s), LAMBDA c : c # "-")
    IN  /\ Len(hex) = 32
        /\ \A i \in 1..Len(hex) : hex[i] \in HexDigits

\* UUID.validate_value (UserId, ProjectId): whether the value is accepted.
UUID_validate_value(s) == uuid_UUID[s]

(***************************************************************************)
(* ProjectScope (core/services/access.py) and Actor.                       *)
(***************************************************************************)
PROJECT_READ == "PROJECT_READ"
PROJECT_WRITE == "PROJECT_WRITE"
PROJECT_READ_SELF == "PROJECT_READ_SELF"
PROJECT_WRITE_SELF == "PROJECT_WRITE_SELF"

\* ProjectScope._value2member_map_
value2member_map ==
    [v \in {"projects", "projects.write", "projects:self", "projects:self.write"} |->
        CASE v = "projects" -> PROJECT_READ
          [] v = "projects.write" -> PROJECT_WRITE
          [] v = "projects:self" -> PROJECT_READ_SELF
          [] v = "projects:self.write" -> PROJECT_WRITE_SELF]

ScopeValues == DOMAIN value2member_map

\* ProjectScope(s): the member whose value is s (ValueError when there is none;
\* callers test ScopeValues first).
ProjectScope(v) == value2member_map[v]

\* s.value
ScopeValue(m) == CHOOSE v \in ScopeValues : value2member_map[v] = m

SeqRange(s) == {s[i] : i \in 1..Len(s)}

\* Actor.has_scope
Actor_has_scope(actor, scope) == \E i \in 1..Len(actor.scopes) : actor.scopes[i] = scope

\* Actor.has_any_scope: any(set(self.scopes).intersection(scopes))
Actor_has_any_scope(actor, scopes) == SeqRange(actor.scopes) \cap scopes # {}

(***************************************************************************)
(* Tokens.  A compact JWS is modelled by what jwt.decode can tell of it:   *)
(* whether it parses, whether its signature verifies under SECRET_KEY, and *)
(* its claims.                                                             *)
(***************************************************************************)
\* jwt.encode(payload, key=SECRET_KEY, algorithm=ALGORITHM)
jwt_encode(sub, scopes, iat, exp) ==
    [kind |-> "signed", sub |-> sub, scopes |-> scopes, iat |-> iat, exp |-> exp]

\* The same claims under a signature that does not verify.
Tampered(tok) == [tok EXCEPT !.kind = "badsig"]

MalformedToken ==
    [kind |-> "malformed", sub |-> "", scopes |-> <<>>, iat |-> 0, exp |-> 0]

\* jwt.decode(token, SECRET_KEY, algorithms=[ALGORITHM]) returns the claims when
\* the token parses, its signature verifies and (python-jose, _validate_exp)
\* not exp < now; otherwise it raises a JWTError.
jwt_decode_ok(tok, t) == tok.kind = "signed" /\ ~(tok.exp < t)

\* The scopes each endpoint hands to Security(has_any_scope, scopes=[...]).
ReadScopes == {PROJECT_READ, PROJECT_READ_SELF}
WriteScopes == {PROJECT_WRITE, PROJECT_WRITE_SELF}

\* has_any_scope (middlewares/access_scopes.py): the response status, and the
\* Actor stored in request.state.actor and handed to the endpoint ({} when the
\* dependency raised).
has_any_scope(tok, security_scopes, t) ==
    IF ~jwt_decode_ok(tok, t)
    THEN [status |-> 401, actor |-> {}]
    ELSE IF ~UUID_validate_value(tok.sub)
    THEN [status |-> 500, actor |-> {}]      \* pydantic ValidationError, not caught
    ELSE IF \E i \in 1..Len(tok.scopes) : tok.scopes[i] \notin ScopeValues
    THEN [status |-> 500, actor |-> {}]      \* ValueError of ProjectScope(s), not caught
    ELSE LET actor == [user_id |-> tok.sub,
                       scopes |-> [i \in 1..Len(tok.scopes) |-> ProjectScope(tok.scopes[i])]]
         IN  IF ~Actor_has_any_scope(actor, security_scopes)
             THEN [status |-> 403, actor |-> {}]
             ELSE [status |-> 200, actor |-> {actor}]

(***************************************************************************)
(* Owner derivation (controllers/project_controller.py).                   *)
(***************************************************************************)
get_read_owner(actor) ==
    IF Actor_has_scope(actor, PROJECT_READ) THEN actor.user_id ELSE None

get_write_owner(actor) ==
    IF Actor_has_scope(actor, PROJECT_WRITE) THEN actor.user_id ELSE None


(***************************************************************************)
(* The domain (core/domain): Role, User, Team, Revision and the Project    *)
(* aggregate.  A dict is a function of its keys: Team.roles is a function  *)
(* of the user ids that hold a role, a change_content is a record with the *)
(* one key of the change.                                                  *)
(***************************************************************************)
OWNER == "owner"
EDITOR == "editor"
VIEWER == "viewer"
Roles == {OWNER, EDITOR, VIEWER}

\* Role.is_viewer, Role.is_editor
Role_is_viewer(role) == role \in {VIEWER, EDITOR, OWNER}
Role_is_editor(role) == role \in {EDITOR, OWNER}

\* User(id=...)
User(id) == [id |-> id]

\* Team(): no member, no role.
Team == [members |-> <<>>, roles |-> [u \in {} |-> OWNER]]

\* dict.pop(key, None)
Pop(dict, key) == [k \in DOMAIN dict \ {key} |-> dict[k]]

\* dict.get(key): "None" for a key the dict does not have.
Get(dict, key) == IF key \in DOMAIN dict THEN dict[key] ELSE None

\* Team.add_member
Team_add_member(team, user, role) ==
    [members |-> Append(team.members, user),
     roles |-> [k \in DOMAIN team.roles \cup {user.id} |->
                    IF k = user.id THEN role ELSE team.roles[k]]]

\* Team.remove_member
Team_remove_member(team, user_id) ==
    [members |-> SelectSeq(team.members, LAMBDA m : m.id # user_id),
     roles |-> Pop(team.roles, user_id)]

\* Team.update_member_role: the team after it, and whether it raised.
Team_update_member_role(team, user_id, role) ==
    IF user_id \notin DOMAIN team.roles
    THEN [raised |-> TRUE, team |-> team]
    ELSE IF role = None
    THEN [raised |-> FALSE, team |-> [team EXCEPT !.roles = Pop(team.roles, user_id)]]
    ELSE [raised |-> FALSE, team |-> [team EXCEPT !.roles[user_id] = role]]

\* RevisionId(): a fresh uuid4, written as the ordinal of the revision in the
\* log of its aggregate object (revisions are only ever appended to it).
RevisionId(revisions) == Len(revisions) + 1

\* Revision(id=..., change_content=...); timestamp is timestamp_now().
Revision(id, change_content) ==
    [id |-> id, timestamp |-> now, change_content |-> change_content]

\* Project.create_revision
Project_create_revision(project, change_content) ==
    [project EXCEPT !.revisions =
        Append(@, Revision(RevisionId(project.revisions), change_content))]

\* Project(**kwargs), the fields pydantic sets (super().__init__).  The
\* callers give id and created_at or leave them to their default factories:
\* kwargs carries the value either way.
Project_fields(kwargs) ==
    [id |-> kwargs.id, name |-> kwargs.name, description |-> kwargs.description,
     start_date |-> kwargs.start_date, end_date |-> kwargs.end_date,
     created_by |-> kwargs.created_by, created_at |-> kwargs.created_at,
     revisions |-> IF "revisions" \in DOMAIN kwargs THEN kwargs.revisions ELSE <<>>,
     phases |-> <<>>,
     team |-> IF "team" \in DOMAIN kwargs THEN kwargs.team ELSE Team]

\* Project.__init__, its initial_revision.
initial_revision(self) ==
    Revision(RevisionId(self.revisions),
             [project_created |-> [name |-> self.name, description |-> self.description]])

\* The variant of Project(**kwargs) that leaves the team as it was given,
\* which C12 must tell apart from the code.
Project_TeamAsGiven(kwargs) ==
    LET self == Project_fields(kwargs)
    IN  IF "revision" \notin DOMAIN kwargs
        THEN [self EXCEPT !.revisions = Append(@, initial_revision(self))]
        ELSE self

\* Project(**kwargs).  __init__ tests kwargs.get("revision") (no field has
\* that name) and kwargs.get("team").
Project(kwargs) ==
    LET self == Project_fields(kwargs)
        revised == IF "revision" \notin DOMAIN kwargs
                   THEN [self EXCEPT !.revisions = Append(@, initial_revision(self))]
                   ELSE self
    IN  IF "team" \notin DOMAIN kwargs
        THEN [revised EXCEPT !.team = Team_add_member(@, self.created_by, OWNER)]
        ELSE revised

\* Project.is_owner, is_editor, is_viewer
Project_is_owner(project, user_id) == project.created_by.id = user_id

Project_is_editor(project, user_id) ==
    LET role == Get(project.team.roles, user_id)
    IN  role # None /\ Role_is_editor(role)

Project_is_viewer(project, user_id) ==
    LET role == Get(project.team.roles, user_id)
    IN  role # None /\ Role_is_viewer(role)

\* Project.add_member, remove_member_role, remove_member: the aggregate
\* after the call, and whether the call raised (ValueError).
\* Project.add_member
Project_add_member(project, user, role) ==
    [raised |-> FALSE,
     project |-> Project_create_revision(
                    [project EXCEPT !.team = Team_add_member(@, user, role)],
                    [added_member |-> [user_id |-> user.id, role |-> role]])]

\* The variant of remove_member_role that clears whatever role the user
\* holds, which C14 must tell apart from the code.
Project_remove_member_role_AnyRole(project, user_id, role) ==
    IF Get(project.team.roles, user_id) # None
    THEN [raised |-> FALSE,
          project |-> Project_create_revision(
                        [project EXCEPT !.team =
                            Team_update_member_role(project.team, user_id, None).team],
                        [removed_role |-> [role |-> role, user_id |-> user_id]])]
    ELSE [raised |-> TRUE, project |-> project]

\* Project.remove_member_role
Project_remove_member_role(project, user_id, role) ==
    IF Get(project.team.roles, user_id) = role
    THEN LET updated == Team_update_member_role(project.team, user_id, None)
         IN  IF updated.raised
             THEN [raised |-> TRUE, project |-> project]
             ELSE [raised |-> FALSE,
                   project |-> Project_create_revision(
                                  [project EXCEPT !.team = updated.team],
                                  [removed_role |-> [role |-> role, user_id |-> user_id]])]
    ELSE [raised |-> TRUE, project |-> project]

\* The variant of remove_member that records nothing for a user who is no
\* member, which C13 must tell apart from the code.
Project_remove_member_SilentWhenAbsent(project, user_id) ==
    IF \E i \in 1..Len(project.team.members) : project.team.members[i].id = user_id
    THEN [raised |-> FALSE,
          project |-> Project_create_revision(
                        [project EXCEPT !.team = Team_remove_member(@, user_id)],
                        [removed_member |-> user_id])]
    ELSE [raised |-> FALSE, project |-> project]

\* Project.remove_member
Project_remove_member(project, user_id) ==
    [raised |-> FALSE,
     project |-> Project_create_revision(
                    [project EXCEPT !.team = Team_remove_member(@, user_id)],
                    [removed_member |-> user_id])]

(***************************************************************************)
(* The repository (db/project_repository.py).  A row of the projects table *)
(* is [name, description, start_date, end_date, created_by, created_at,    *)
(* archived] under its id; no row of phases or revisions is ever written.  *)
(* A date is written as its ISO text.                                      *)
(***************************************************************************)
ProjectIds == {Project1, Project2}
UserIds == {UserA, UserB}
Names == {"Alpha", "beta"}
Descriptions == {"", "plan"}
Dates == {"2025-01-01", "2025-06-30"}

\* str.lower(), as ILIKE compares.
Lower(s) == IF s = "Alpha" THEN "alpha" ELSE s

\* The dates a filter can name, beside those a project can have.
FilterDates == {"2024-12-31", "2025-03-01", "2025-12-31"}

\* date.fromisoformat(d).toordinal(): dates compare as their ordinals.
toordinal(d) ==
    CASE d = "2024-12-31" -> 739251
      [] d = "2025-01-01" -> 739252
      [] d = "2025-03-01" -> 739311
      [] d = "2025-06-30" -> 739432
      [] d = "2025-12-31" -> 739616

\* ProjectRecord.to_domain: Project(...) without revisions and team, which
\* __init__ then fills.
to_domain(id, rec) ==
    Project([id |-> id, name |-> rec.name, description |-> rec.description,
             start_date |-> rec.start_date, end_date |-> rec.end_date,
             created_by |-> User(rec.created_by), created_at |-> rec.created_at,
             phases |-> <<>>])

\* ProjectRecord.from_domain: archived is always False.
from_domain(project) ==
    [name |-> project.name, description |-> project.description,
     start_date |-> project.start_date, end_date |-> project.end_date,
     created_by |-> project.created_by.id, created_at |-> project.created_at,
     archived |-> FALSE]

\* ProjectFilters with nothing set (also specs.filters = None: both give no
\* condition).
NoFilters ==
    [name_contains |-> None, description_contains |-> None,
     start_date_from |-> None, start_date_to |-> None,
     end_date_from |-> None, end_date_to |-> None,
     created_by |-> None, archived |-> {}]

\* to_sqlalchemy_filters: whether a row passes and_(*conditions), one
\* condition for every criterion that is truthy (archived: that is not None;
\* its condition is archived IS TRUE whatever the flag asked for).  A pattern
\* without % or _ makes ILIKE a case-insensitive equality.
to_sqlalchemy_filters(filters, rec) ==
    /\ (filters.name_contains # None /\ filters.name_contains # "")
            => Lower(rec.name) = Lower(filters.name_contains)
    /\ (filters.description_contains # None /\ filters.description_contains # "")
            => Lower(rec.description) = Lower(filters.description_contains)
    /\ filters.start_date_from # None
            => toordinal(rec.start_date) >= toordinal(filters.start_date_from)
    /\ filters.start_date_to # None
            => toordinal(rec.start_date) <= toordinal(filters.start_date_to)
    /\ filters.end_date_from # None
            => toordinal(rec.end_date) >= toordinal(filters.end_date_from)
    /\ filters.end_date_to # None
            => toordinal(rec.end_date) <= toordinal(filters.end_date_to)
    /\ filters.created_by # None => rec.created_by = filters.created_by
    /\ filters.archived # {} => rec.archived = TRUE

\* ProjectRepositoryOnSQLA.find: the ids of the projects returned.
find(st, filters) ==
    {id \in DOMAIN st : st[id] # {} /\ \A rec \in st[id] : to_sqlalchemy_filters(filters, rec)}

\* ProjectRepositoryOnSQLA.find_by_id: {} or {Project}.
find_by_id(st, id) ==
    IF id \in DOMAIN st THEN {to_domain(id, rec) : rec \in st[id]} ELSE {}

\* ProjectRepositoryOnSQLA.save, its SELECT: whether a row of the id exists.
save_existing(st, project) == st[project.id] # {}

\* A save whose UPDATE writes the name alone.
save_write_NameOnly(st, project, existing) ==
    LET record == from_domain(project)
    IN  IF existing
        THEN [st EXCEPT ![project.id] =
                {[old EXCEPT !.name = record.name,
                             !.archived = record.archived] : old \in @}]
        ELSE IF st[project.id] = {} THEN [st EXCEPT ![project.id] = {record}]
        ELSE st

\* ProjectRepositoryOnSQLA.save, its write under what the SELECT found: the
\* UPDATE sets name, description, the dates and archived of
\* from_domain(project) on the row of the id (on no row when it is gone);
\* the INSERT adds the row (and fails on a row that is there).
save_write(st, project, existing) ==
    LET record == from_domain(project)
    IN  IF existing
        THEN [st EXCEPT ![project.id] =
                {[old EXCEPT !.name = record.name,
                             !.description = record.description,
                             !.start_date = record.start_date,
                             !.end_date = record.end_date,
                             !.archived = record.archived] : old \in @}]
        ELSE IF st[project.id] = {} THEN [st EXCEPT ![project.id] = {record}]
        ELSE st

\* ProjectRepositoryOnSQLA.archive
archive(st, id) ==
    IF id \in DOMAIN st
    THEN [st EXCEPT ![id] = {[old EXCEPT !.archived = TRUE] : old \in @}]
    ELSE st

\* ProjectRepositoryOnSQLA.delete
delete(st, id) == IF id \in DOMAIN st THEN [st EXCEPT ![id] = {}] ELSE st

(***************************************************************************)
(* ProjectServices (core/services/projects.py): what an operation does     *)
(* between two awaits of the repository.                                   *)
(***************************************************************************)
\* ProjectEdit with nothing set; a field not set or set to null is "None".
NoEdit == [name |-> None, description |-> None, start_date |-> None, end_date |-> None]

\* The variant of the loop of edit_project that also assigns None, which
\* C18 must tell apart from the code.
SetAttrs_NoneToo(project, edit) ==
    [project EXCEPT !.name = edit.name, !.description = edit.description,
                    !.start_date = edit.start_date, !.end_date = edit.end_date]

\* edit_project, its loop: setattr for every field of the edit that is set
\* and not None.
SetAttrs(project, edit) ==
    [project EXCEPT
        !.name = IF edit.name # None THEN edit.name ELSE @,
        !.description = IF edit.description # None THEN edit.description ELSE @,
        !.start_date = IF edit.start_date # None THEN edit.start_date ELSE @,
        !.end_date = IF edit.end_date # None THEN edit.end_date ELSE @]

\* query_projects: with an owner, filters.created_by = owner_id replaces what
\* the caller gave.  Its one statement is the SELECT of find.
ProjectServices_query_projects(st, filters, owner_id) ==
    LET used == IF owner_id # None THEN [filters EXCEPT !.created_by = owner_id]
                ELSE filters
    IN  [projects |-> find(st, used), find_specs |-> {used}, calls |-> <<"find">>, store |-> st]

\* The variant of get_project_by_id without the ownership test, which C3
\* must tell apart from the code.
ProjectServices_get_project_by_id_AnyOwner(st, id, owner_id) == find_by_id(st, id)

\* get_project_by_id: {} (None) or {Project}.  Its one statement is the
\* SELECT of find_by_id.
ProjectServices_get_project_by_id(st, id, owner_id) ==
    LET maybe_project == find_by_id(st, id)
    IN  {project \in maybe_project : ~(owner_id # None /\ project.created_by.id # owner_id)}

\* create_project, its Project(...) of the payload, with the fresh id and
\* the created_at its default factories draw.
ProjectServices_create_project(id, payload) ==
    Project([id |-> id, name |-> payload.name,
             description |-> payload.description,
             start_date |-> payload.start_date,
             end_date |-> payload.end_date,
             created_by |-> payload.created_by,
             created_at |-> now])

(***************************************************************************)
(* The exchanges on record.                                                *)
(***************************************************************************)
\* A /projects exchange: the request (op, token, id, filters), what the
\* dependency and the controller did (status; actor: request.state.actor;
\* svc: whether the ProjectServices operation was called, with owner as its
\* owner_id; calls: its repository calls; find_specs: the filters it handed
\* to find) and the projects in the response.  at is the time the request
\* came in.
Exchange(op, tok, id, filters, status, actor, svc, owner, calls, find_specs, projects) ==
    [op |-> op, token |-> tok, id |-> id, filters |-> filters, at |-> now,
     status |-> status, actor |-> actor, svc |-> svc, owner |-> owner,
     calls |-> calls, find_specs |-> find_specs, projects |-> projects]

\* The exchange of a request the dependency refused: the path and body never
\* reach the endpoint and are not recorded.
Refused(op, tok, status) ==
    Exchange(op, tok, None, {}, status, {}, FALSE, None, <<>>, {}, {})

\* No /projects exchange yet.
NoExchange == [Refused("none", MalformedToken, 0) EXCEPT !.at = 0]

\* A /tokens exchange: the request (the X-Actor-ID header, and the scopes and
\* ttl of the body, {} for a key the body does not have) and the response.
TokenExchange(header, scopes, ttl, status, token) ==
    [op |-> "token", header |-> header, scopes |-> scopes, ttl |-> ttl, at |-> now,
     status |-> status, token |-> token]

NoHeader == [kind |-> "none", plain |-> ""]

\* No /tokens exchange yet.
NoToken == [TokenExchange(NoHeader, {}, {}, 0, {}) EXCEPT !.op = "none", !.at = 0]

\* A call made directly on ProjectServices or on a Project that has
\* returned: the operation, its input, the aggregate it was made on (for a
\* service operation: the Project its find_by_id gave; {} when there was
\* none), whether it raised, the aggregate after it (for a service
\* operation: the Project it returned, {} for None) and the boolean a
\* service operation returned ({} when it returns none); behind is the
\* edits other calls wrote to the row between the fetch and the return.
DirectCall(op, input, before, raised, project) ==
    [op |-> op, input |-> input, before |-> before, raised |-> raised,
     project |-> project, returned |-> {}, behind |-> {}]

\* No direct call has returned since the last one was made.
NoCall == DirectCall("none", None, {}, FALSE, {})

\* The service calls that may be in flight together: in SpecEdits and
\* SpecInterleaved MaxRequests, each slot taking one call; in the other
\* specifications MaxInFlight, a slot taking its next call when the one
\* before has returned.
MaxRequests == 3
MaxInFlight == 2
Slots == 1..MaxRequests
InFlightSlots == 1..MaxInFlight

\* A slot that has had no call, and a slot whose call has returned.
Idle == [op |-> "none", pc |-> "idle"]
Done == [op |-> "none", pc |-> "done"]

\* The slot of a request that arrives.  The slots are interchangeable: a
\* call that goes in flight takes the lowest slot that holds none; when
\* every slot holds a call the request is one the service answers from its
\* first statement (a refusal, a project that is not found).
Arrives(slot) ==
    \/ /\ requests[slot].op = "none"
       /\ \A other \in InFlightSlots : other < slot => requests[other].op # "none"
    \/ /\ slot = 1
       /\ \A other \in InFlightSlots : requests[other].op # "none"

\* The slot of a call where each slot takes one call: the lowest one that
\* has had no call.
Unused(slot) ==
    /\ requests[slot] = Idle
    /\ \A other \in Slots : other < slot => requests[other] # Idle

TypeOK ==
    /\ now \in 0..MaxTime
    /\ DOMAIN store = ProjectIds
    /\ DOMAIN requests = Slots
    /\ deleted \subseteq ProjectIds

Init ==
    /\ now = 0
    /\ store = [id \in ProjectIds |-> {}]
    /\ issued = NoToken
    /\ last = NoExchange
    /\ aggregate = NoCall
    /\ requests = [slot \in Slots |-> Idle]
    /\ deleted = {}

(***************************************************************************)
(* The calls of create_project, edit_project, archive_project and          *)
(* delete_project in flight.  Controller, service, repository and the      *)
(* AsyncSession are built once (module.py, db/__init__.py): every request  *)
(* runs on the one session, and the event loop runs other requests at each *)
(* await of the session.  A step of a call is one awaited statement        *)
(* (SELECT, UPDATE, INSERT, DELETE, COMMIT) with what the call does before *)
(* it since its last await; the step of its COMMIT ends with the return of *)
(* the call.  What a statement wrote is read by every later statement of   *)
(* any call, before its COMMIT too (one session, one transaction).         *)
(***************************************************************************)
\* How the service was called: directly, or by an endpoint for a request
\* that came in under tok, with the Actor the dependency attached.
Direct == {}
ByEndpoint(tok, actor) == {[token |-> tok, actor |-> actor, at |-> now]}

\* A call in flight: op and the id it addresses, its input, its owner_id,
\* the statement it is to run next (pc), the Project its find_by_id gave
\* (fetched), the Project it holds (project: fetched and edited, or built by
\* create_project), what the SELECT of save found (existing), the edits that
\* other calls wrote to its row since it fetched (behind), and who called.
InFlight(op, id, input, owner_id, pc, fetched, project, existing, via) ==
    [op |-> op, id |-> id, input |-> input, owner_id |-> owner_id, pc |-> pc,
     fetched |-> fetched, project |-> project, existing |-> existing,
     behind |-> {}, via |-> via]

\* An id that uuid4 can draw: one that no row and no call has had.
Fresh(id) ==
    /\ store[id] = {}
    /\ id \notin deleted
    /\ \A slot \in Slots : requests[slot].op # "none" => requests[slot].id # id

\* The edit_project call of writer has written the row of id: the other
\* calls in flight that hold a Project of the id fall behind it.
FallBehind(reqs, writer, id) ==
    [slot \in Slots |->
        IF /\ reqs[writer].op = "edit"
           /\ slot # writer /\ reqs[slot].op # "none" /\ reqs[slot].id = id
        THEN [reqs[slot] EXCEPT !.behind = @ \cup
                {[op |-> reqs[writer].op, fetched |-> reqs[writer].fetched,
                  project |-> reqs[writer].project]}]
        ELSE reqs[slot]]

\* The name of the service operation of a call.
ServiceOp(op) ==
    CASE op = "create" -> "create_project"
      [] op = "edit" -> "edit_project"
      [] op = "archive" -> "archive_project"
      [] op = "delete" -> "delete_project"

\* The repository calls a call has made when it has made its write.
RepositoryCalls(op) ==
    CASE op = "create" -> <<"save">>
      [] op = "edit" -> <<"find_by_id", "save">>
      [] op = "archive" -> <<"find_by_id", "archive">>
      [] op = "delete" -> <<"find_by_id", "delete">>

\* A call is made: a direct caller no longer holds what its last call
\* returned.
Made(via) ==
    IF via = Direct THEN aggregate' = NoCall /\ UNCHANGED last
    ELSE UNCHANGED <<last, aggregate>>

\* A call returns.  data is the Project returned ({} for None), returned the
\* boolean returned ({} for none), calls the repository calls made, raised
\* whether an exception left the call.  The endpoint answers 404 for None
\* and False, 500 for an exception; create_project answers 200.
Return(request, calls, data, returned, raised) ==
    IF request.via = Direct
    THEN /\ aggregate' = [DirectCall(ServiceOp(request.op), request.input,
                                     request.fetched, raised, data)
                            EXCEPT !.returned = returned, !.behind = request.behind]
         /\ UNCHANGED last
    ELSE LET by == CHOOSE by \in request.via : TRUE
             ok == ~raised /\ (data # {} \/ returned = {TRUE})
             answer == Exchange(request.op, by.token,
                                IF request.op = "create" THEN None ELSE request.id,
                                {},
                                IF raised THEN 500 ELSE IF ok THEN 200 ELSE 404,
                                {by.actor}, TRUE, request.owner_id, calls, {},
                                IF ok THEN {request.id} ELSE {})
         IN  /\ last' = [answer EXCEPT !.at = by.at]
             /\ UNCHANGED aggregate

\* create_project up to the await of save's INSERT: Project(...), and the
\* SELECT of save.
create_project_select(slot, id, payload, via) ==
    LET project == ProjectServices_create_project(id, payload)
    IN  /\ requests[slot].op = "none"
        /\ Fresh(id)
        /\ requests' = [requests EXCEPT ![slot] =
                InFlight("create", id, payload, None, "save_execute", {}, {project},
                         save_existing(store, project), via)]
        /\ Made(via)
        /\ UNCHANGED <<now, store, issued, deleted>>

\* edit_project up to the await in save: get_project_by_id, the return of
\* None, the setattr loop.
edit_project_fetch(slot, id, edit, owner_id, via) ==
    LET found == ProjectServices_get_project_by_id(store, id, owner_id)
        input == [id |-> id, edit |-> edit, owner_id |-> owner_id]
        call == InFlight("edit", id, input, owner_id, "save_select", found,
                         {SetAttrs(project, edit) : project \in found}, FALSE, via)
    IN  /\ IF found = {}
           THEN /\ Return(call, <<"find_by_id">>, {}, {}, FALSE)
                /\ UNCHANGED requests
           ELSE /\ requests[slot].op = "none"
                /\ requests' = [requests EXCEPT ![slot] = call]
                /\ Made(via)
        /\ UNCHANGED <<now, store, issued, deleted>>

\* archive_project up to the await of repository.archive.
archive_project_fetch(slot, id, owner_id, via) ==
    LET found == ProjectServices_get_project_by_id(store, id, owner_id)
        input == [id |-> id, owner_id |-> owner_id]
        call == InFlight("archive", id, input, owner_id, "archive_execute", found,
                         found, FALSE, via)
    IN  /\ IF found = {}
           THEN /\ Return(call, <<"find_by_id">>, {}, {FALSE}, FALSE)
                /\ UNCHANGED requests
           ELSE /\ requests[slot].op = "none"
                /\ requests' = [requests EXCEPT ![slot] = call]
                /\ Made(via)
        /\ UNCHANGED <<now, store, issued, deleted>>

\* delete_project up to the await of repository.delete.
delete_project_fetch(slot, id, owner_id, via) ==
    LET found == ProjectServices_get_project_by_id(store, id, owner_id)
        input == [id |-> id, owner_id |-> owner_id]
        call == InFlight("delete", id, input, owner_id, "delete_execute", found,
                         found, FALSE, via)
    IN  /\ IF found = {}
           THEN /\ Return(call, <<"find_by_id">>, {}, {FALSE}, FALSE)
                /\ UNCHANGED requests
           ELSE /\ requests[slot].op = "none"
                /\ requests' = [requests EXCEPT ![slot] = call]
                /\ Made(via)
        /\ UNCHANGED <<now, store, issued, deleted>>

\* save of edit_project, its SELECT.
save_select(slot) ==
    /\ requests[slot].op = "edit" /\ requests[slot].pc = "save_select"
    /\ requests' = [requests EXCEPT ![slot] =
            [@ EXCEPT !.pc = "save_execute",
                      !.existing = \A project \in requests[slot].project :
                                        save_existing(store, project)]]
    /\ UNCHANGED <<now, store, issued, last, aggregate, deleted>>

\* save of create_project and edit_project, its write: the UPDATE it awaits,
\* or the INSERT of the record it has added, the first statement of its
\* commit().  The INSERT of a row that is there again is refused, and the
\* exception leaves the call.
save_execute(slot) ==
    LET request == requests[slot]
        project == CHOOSE project \in request.project : TRUE
        refused == ~request.existing /\ store[request.id] # {}
    IN  /\ request.op \in {"create", "edit"} /\ request.pc = "save_execute"
        /\ store' = save_write(store, project, request.existing)
        /\ IF refused
           THEN /\ requests' = [requests EXCEPT ![slot] = Done]
                /\ Return(request, RepositoryCalls(request.op), {}, {}, TRUE)
           ELSE /\ requests' = [FallBehind(requests, slot, request.id)
                                    EXCEPT ![slot].pc = "save_commit"]
                /\ UNCHANGED <<last, aggregate>>
        /\ UNCHANGED <<now, issued, deleted>>

\* save, its COMMIT; the operation returns the project.
save_commit(slot) ==
    LET request == requests[slot]
    IN  /\ request.op \in {"create", "edit"} /\ request.pc = "save_commit"
        /\ requests' = [requests EXCEPT ![slot] = Done]
        /\ Return(request, RepositoryCalls(request.op), request.project, {}, FALSE)
        /\ UNCHANGED <<now, store, issued, deleted>>

\* repository.archive, its UPDATE.
archive_execute(slot) ==
    LET request == requests[slot]
    IN  /\ request.op = "archive" /\ request.pc = "archive_execute"
        /\ store' = archive(store, request.id)
        /\ requests' = [requests EXCEPT ![slot].pc = "archive_commit"]
        /\ UNCHANGED <<now, issued, last, aggregate, deleted>>

\* repository.archive, its COMMIT; archive_project returns True.
archive_commit(slot) ==
    LET request == requests[slot]
    IN  /\ request.op = "archive" /\ request.pc = "archive_commit"
        /\ requests' = [requests EXCEPT ![slot] = Done]
        /\ Return(request, RepositoryCalls(request.op), {}, {TRUE}, FALSE)
        /\ UNCHANGED <<now, store, issued, deleted>>

\* repository.delete, its DELETE.
delete_execute(slot) ==
    LET request == requests[slot]
    IN  /\ request.op = "delete" /\ request.pc = "delete_execute"
        /\ store' = delete(store, request.id)
        /\ requests' = [requests EXCEPT ![slot].pc = "delete_commit"]
        /\ UNCHANGED <<now, issued, last, aggregate, deleted>>

\* repository.delete, its COMMIT; delete_project returns True.
delete_commit(slot) ==
    LET request == requests[slot]
    IN  /\ request.op = "delete" /\ request.pc = "delete_commit"
        /\ deleted' = deleted \cup {request.id}
        /\ requests' = [requests EXCEPT ![slot] = Done]
        /\ Return(request, RepositoryCalls(request.op), {}, {TRUE}, FALSE)
        /\ UNCHANGED <<now, store, issued>>

(***************************************************************************)
(* ProjectController: one action per endpoint, the has_any_scope           *)
(* dependency included.  query and get await one statement and answer;     *)
(* create, edit, archive and delete go on in the steps above.              *)
(***************************************************************************)
\* An endpoint whose ProjectId(value=id) raised before the service was called.
NotCalled(op, tok, id, status, actor) ==
    Exchange(op, tok, id, {}, status, actor, FALSE, None, <<>>, {}, {})

\* An endpoint that called the service operation with owner_id = owner and
\* got r; missing is the status of an empty result.
Called(op, tok, id, filters, actor, owner, r, missing) ==
    Exchange(op, tok, id, filters, IF r.projects = {} THEN missing ELSE 200,
             actor, TRUE, owner, r.calls, r.find_specs, r.projects)

\* POST /projects/query
ProjectController_query_projects(tok, filters) ==
    LET auth == has_any_scope(tok, ReadScopes, now)
    IN  /\ UNCHANGED <<now, store, issued, aggregate, requests, deleted>>
        /\ IF auth.status # 200
           THEN last' = Refused("query", tok, auth.status)
           ELSE LET owner == get_read_owner(CHOOSE a \in auth.actor : TRUE)
                    r == ProjectServices_query_projects(store, filters, owner)
                IN  last' = Called("query", tok, None, {filters}, auth.actor, owner, r, 200)

\* GET /projects/{id}: a ValidationError of ProjectId(value=id) is caught and
\* answered 404.
ProjectController_get_project_by_id(tok, id) ==
    LET auth == has_any_scope(tok, ReadScopes, now)
    IN  /\ UNCHANGED <<now, store, issued, aggregate, requests, deleted>>
        /\ IF auth.status # 200
           THEN last' = Refused("get", tok, auth.status)
           ELSE IF ~UUID_validate_value(id)
           THEN last' = NotCalled("get", tok, id, 404, auth.actor)
           ELSE LET owner == get_read_owner(CHOOSE a \in auth.actor : TRUE)
                    found == ProjectServices_get_project_by_id(store, id, owner)
                    r == [projects |-> {p.id : p \in found}, find_specs |-> {},
                          calls |-> <<"find_by_id">>]
                IN  last' = Called("get", tok, id, {}, auth.actor, owner, r, 404)

\* Actor.to_user
Actor_to_user(actor) == User(actor.user_id)

\* POST /projects: payload.created_by is the actor; id is the fresh id that
\* Project(...) draws.
ProjectController_create_project(slot, tok, id, payload) ==
    LET auth == has_any_scope(tok, WriteScopes, now)
        actor == CHOOSE a \in auth.actor : TRUE
    IN  IF auth.status # 200
        THEN /\ last' = Refused("create", tok, auth.status)
             /\ UNCHANGED <<now, store, issued, aggregate, requests, deleted>>
        ELSE create_project_select(
                slot, id,
                [name |-> payload.name, description |-> payload.description,
                 start_date |-> payload.start_date, end_date |-> payload.end_date,
                 created_by |-> Actor_to_user(actor)],
                ByEndpoint(tok, actor))

\* What edit, archive and delete share.  ProjectId(value=id) is built outside
\* any try: an id that is no UUID ends in a 500.  The service operation of the
\* endpoint op is called with owner_id = get_write_owner(actor); edit is the
\* body of an edit.
WriteEndpoint(op, slot, tok, id, edit) ==
    LET auth == has_any_scope(tok, WriteScopes, now)
        actor == CHOOSE a \in auth.actor : TRUE
        owner == get_write_owner(actor)
    IN  IF auth.status # 200
        THEN /\ last' = Refused(op, tok, auth.status)
             /\ UNCHANGED <<now, store, issued, aggregate, requests, deleted>>
        ELSE IF ~UUID_validate_value(id)
        THEN /\ last' = NotCalled(op, tok, id, 500, auth.actor)
             /\ UNCHANGED <<now, store, issued, aggregate, requests, deleted>>
        ELSE CASE op = "edit" ->
                    edit_project_fetch(slot, id, edit, owner, ByEndpoint(tok, actor))
               [] op = "archive" ->
                    archive_project_fetch(slot, id, owner, ByEndpoint(tok, actor))
               [] op = "delete" ->
                    delete_project_fetch(slot, id, owner, ByEndpoint(tok, actor))

\* PATCH /projects/{id}
ProjectController_edit_project(slot, tok, id, edit) ==
    WriteEndpoint("edit", slot, tok, id, edit)

\* PATCH /projects/{id}/archive
ProjectController_archive_project(slot, tok, id) ==
    WriteEndpoint("archive", slot, tok, id, NoEdit)

\* DELETE /projects/{id}
ProjectController_delete_project(slot, tok, id) ==
    WriteEndpoint("delete", slot, tok, id, NoEdit)

(***************************************************************************)
(* Spec: the endpoints that read, and POST /projects, under every kind of  *)
(* bearer token.                                                           *)
(***************************************************************************)
\* Every subset of the four scope values, as a scopes claim.
ScopeSubsets ==
    LET Opt(v) == {<<>>, <<v>>}
    IN  {a \o b \o c \o d : a \in Opt("projects"), b \in Opt("projects.write"),
                            c \in Opt("projects:self"), d \in Opt("projects:self.write")}

\* Signed, unexpired tokens.  UserA presents every scope subset, and one
\* scopes claim with a string that is no scope value; UserB and the subject
\* "u1" (the issuer signs any string as sub) present three claims each.
SignedTokens ==
    {jwt_encode(UserA, scopes, now, now + 1) :
        scopes \in ScopeSubsets \cup {<<"projects", "admin">>}}
    \cup {jwt_encode(sub, scopes, now, now + 1) :
            sub \in {UserB, "u1"},
            scopes \in {<<"projects:self", "projects:self.write">>,
                        <<"projects", "projects.write">>, <<>>}}

\* Bearer tokens anybody can present.
PresentedTokens ==
    SignedTokens
    \cup {Tampered(jwt_encode(UserA, <<"projects", "projects.write">>, now, now + 1)),
          MalformedToken}

IdInputs == ProjectIds \cup {"p1"}

\* The body of the POST /projects requests of Spec.
AlphaPayload ==
    [name |-> "Alpha", description |-> "", start_date |-> "2025-01-01",
     end_date |-> "2025-06-30"]

\* The filters of the queries: none, and one of every criterion.
FilterInputs ==
    {NoFilters}
    \cup {[NoFilters EXCEPT !.created_by = u] : u \in UserIds}
    \cup {[NoFilters EXCEPT !.archived = {b}] : b \in BOOLEAN}
    \cup {[NoFilters EXCEPT !.name_contains = "alpha"],
          [NoFilters EXCEPT !.description_contains = "zzz"],
          [NoFilters EXCEPT !.start_date_from = "2025-03-01"],
          [NoFilters EXCEPT !.start_date_to = "2024-12-31"],
          [NoFilters EXCEPT !.end_date_from = "2025-12-31"],
          [NoFilters EXCEPT !.end_date_to = "2025-03-01"]}

\* The bearer tokens of the POST /projects requests: the tokens of UserA
\* that claim the write scope or none, and every token of the others.
WriterTokens ==
    {tok \in PresentedTokens :
        (tok.kind = "signed" /\ tok.sub = UserA)
            => SeqRange(tok.scopes) \subseteq {"projects.write"}}

\* The bearer tokens of the queries that carry a filter and of the GETs of
\* an id other than Project1: UserA with the read scope and with the self
\* read scope.
FilterTokens ==
    {jwt_encode(UserA, scopes, now, now + 1) :
        scopes \in {<<"projects">>, <<"projects:self">>}}

Next ==
    \/ \E tok \in PresentedTokens :
            ProjectController_query_projects(tok, NoFilters)
    \/ \E tok \in FilterTokens, filters \in FilterInputs :
            ProjectController_query_projects(tok, filters)
    \/ \E tok \in PresentedTokens :
            ProjectController_get_project_by_id(tok, Project1)
    \/ \E tok \in FilterTokens, id \in IdInputs :
            ProjectController_get_project_by_id(tok, id)
    \/ \E slot \in InFlightSlots, tok \in WriterTokens, id \in ProjectIds :
            Arrives(slot) /\ ProjectController_create_project(slot, tok, id, AlphaPayload)
    \/ \E slot \in InFlightSlots : save_execute(slot)
    \/ \E slot \in InFlightSlots : save_commit(slot)

Spec == Init /\ [][Next]_vars

(***************************************************************************)
(* SpecWrites: the endpoints that write, and GET /projects/{id}, on one    *)
(* project, with requests in flight together.                              *)
(***************************************************************************)
\* The tokens of SpecWrites.  The creator UserA holds the unrestricted
\* scopes, or the read scope alone; UserB holds the unrestricted scopes, or
\* the self scopes.
CreatorToken == jwt_encode(UserA, <<"projects", "projects.write">>, now, now + 1)

RequestTokens ==
    {CreatorToken,
     jwt_encode(UserA, <<"projects">>, now, now + 1),
     jwt_encode(UserB, <<"projects", "projects.write">>, now, now + 1),
     jwt_encode(UserB, <<"projects:self", "projects:self.write">>, now, now + 1)}

NextWrites ==
    \/ \E slot \in InFlightSlots :
            /\ Arrives(slot)
            /\ ProjectController_create_project(slot, CreatorToken, Project1, AlphaPayload)
    \/ \E tok \in RequestTokens, id \in IdInputs :
            ProjectController_get_project_by_id(tok, id)
    \/ \E slot \in InFlightSlots, tok \in RequestTokens, id \in IdInputs :
            Arrives(slot) /\ ProjectController_edit_project(slot, tok, id, NoEdit)
    \/ \E slot \in InFlightSlots, tok \in RequestTokens, id \in ProjectIds :
            Arrives(slot) /\ ProjectController_archive_project(slot, tok, id)
    \/ \E slot \in InFlightSlots, tok \in RequestTokens, id \in ProjectIds :
            Arrives(slot) /\ ProjectController_delete_project(slot, tok, id)
    \/ \E slot \in InFlightSlots : save_select(slot)
    \/ \E slot \in InFlightSlots : save_execute(slot)
    \/ \E slot \in InFlightSlots : save_commit(slot)
    \/ \E slot \in InFlightSlots : archive_execute(slot)
    \/ \E slot \in InFlightSlots : archive_commit(slot)
    \/ \E slot \in InFlightSlots : delete_execute(slot)
    \/ \E slot \in InFlightSlots : delete_commit(slot)

SpecWrites == Init /\ [][NextWrites]_vars


(***************************************************************************)
(* AccessController (controllers/access_controller.py).                    *)
(***************************************************************************)
DefaultTtl == 1200
MaxTtl == 2400

\* encrypt_actor_id: RSA-OAEP under the service's public key, base64.
encrypt_actor_id(id) == [kind |-> "oaep", plain |-> id]

\* A header value that is no base64 of a ciphertext under the service's key.
GarbageHeader == [kind |-> "garbage", plain |-> ""]

\* get_actor_id_from_header: {} when b64decode, decrypt or decode raises.
get_actor_id_from_header(header_value) ==
    IF header_value.kind = "oaep" THEN {header_value.plain} ELSE {}

\* AccessTokenRequest.validate_scopes: the strings that are scope values, as
\* ProjectScope members, in order.
validate_scopes(value) ==
    LET kept == SelectSeq(value, LAMBDA scope : scope \in ScopeValues)
    IN  [i \in 1..Len(kept) |-> ProjectScope(kept[i])]

\* AccessTokenRequest: the validated body, {} when pydantic rejects it
\* (scopes given and shorter than min_length=1 after validate_scopes, or ttl
\* given and above le=2400).  A key the body does not have takes its default
\* unvalidated.
AccessTokenRequest(scopes, ttl) ==
    LET validated == {validate_scopes(value) : value \in scopes}
    IN  IF (\E v \in validated : Len(v) < 1) \/ (\E n \in ttl : n > MaxTtl)
        THEN {}
        ELSE {[scopes |-> IF scopes = {} THEN <<>> ELSE CHOOSE v \in validated : TRUE,
               ttl |-> IF ttl = {} THEN DefaultTtl ELSE CHOOSE n \in ttl : TRUE]}

\* POST /tokens.  FastAPI validates the body before it calls the endpoint
\* (422); an exception of get_actor_id_from_header is not caught (500).
\* A new token starts a new record of /projects exchanges.
AccessController_create_access_token(header, scopes, ttl) ==
    LET body == AccessTokenRequest(scopes, ttl)
        request_body == CHOOSE b \in body : TRUE
        actor_id == get_actor_id_from_header(header)
        exp == now + request_body.ttl
        access_token ==
            jwt_encode(CHOOSE a \in actor_id : TRUE,
                       [i \in 1..Len(request_body.scopes) |-> ScopeValue(request_body.scopes[i])],
                       now, exp)
    IN  /\ UNCHANGED <<now, store, aggregate, requests, deleted>>
        /\ last' = NoExchange
        /\ issued' =
            IF body = {} THEN TokenExchange(header, scopes, ttl, 422, {})
            ELSE IF actor_id = {} THEN TokenExchange(header, scopes, ttl, 500, {})
            ELSE IF request_body.scopes = <<>> THEN TokenExchange(header, scopes, ttl, 400, {})
            ELSE TokenExchange(header, scopes, ttl, 200, {access_token})

\* A second passes.
Tick ==
    /\ now < MaxTime
    /\ now' = now + 1
    /\ UNCHANGED <<store, issued, last, aggregate, requests, deleted>>

(***************************************************************************)
(* SpecTokens: the life of a token.  A client asks for a token and, as time*)
(* passes, presents it (as issued, or tampered with, or a malformed        *)
(* string) to a read and a write endpoint.  No project is created.         *)
(***************************************************************************)
HeaderInputs == {encrypt_actor_id(UserA), encrypt_actor_id("u1"), GarbageHeader}

ScopeRequests ==
    {{}, {<<>>}, {<<"admin">>}, {<<"projects:self">>}, {<<"projects.write", "admin">>},
     {<<"projects", "projects:self.write">>}}

TtlRequests == {{}, {1}, {2}, {MaxTtl}, {MaxTtl + 1}}

HeldTokens ==
    issued.token \cup {Tampered(tok) : tok \in issued.token} \cup {MalformedToken}

NextTokens ==
    \/ Tick
    \/ \E header \in HeaderInputs, scopes \in ScopeRequests, ttl \in TtlRequests :
            AccessController_create_access_token(header, scopes, ttl)
    \/ \E tok \in HeldTokens : ProjectController_query_projects(tok, NoFilters)
    \/ \E tok \in HeldTokens : ProjectController_get_project_by_id(tok, Project1)
    \/ \E slot \in InFlightSlots, tok \in HeldTokens :
            Arrives(slot) /\ ProjectController_delete_project(slot, tok, Project1)

SpecTokens == Init /\ [][NextTokens]_vars


(***************************************************************************)
(* What the claims speak of.                                               *)
(***************************************************************************)
\* The scopes a token grants: the members its scopes claim names.
Granted(tok) ==
    {value2member_map[v] : v \in SeqRange(tok.scopes) \cap ScopeValues}

\* The scope pair an endpoint requires.
RequiredScopes(op) == IF op \in {"query", "get"} THEN ReadScopes ELSE WriteScopes

ReadOps == {"query", "get"}
WriteOps == {"edit", "archive", "delete"}

\* A token has expired at t when t is at or after its exp.
Expired(tok, t) == t >= tok.exp

\* The actor of the last exchange (when one was attached).
TheActor == CHOOSE a \in last.actor : TRUE

\* The stored row of an id that is stored.
Row(st, id) == CHOOSE rec \in st[id] : TRUE

(***************************************************************************)
(* C1.  The owner restriction handed to the Project Service: on a read     *)
(* (query, get) the actor's own id when the actor holds ReadSelf and not   *)
(* Read, and none when it holds Read; on a write (edit, archive, delete)   *)
(* the actor's own id when it holds WriteSelf and not Write, and none when *)
(* it holds Write.                                                         *)
(***************************************************************************)
C1_OwnerFromScopes ==
    (last.svc /\ last.op \in ReadOps \cup WriteOps) =>
        LET unrestricted == IF last.op \in ReadOps THEN PROJECT_READ ELSE PROJECT_WRITE
        IN  last.owner = IF unrestricted \in Granted(last.token) THEN None
                         ELSE TheActor.user_id

(***************************************************************************)
(* C2.  Isolation of self-scoped actors: a query without filters under a   *)
(* token that holds ReadSelf only returns the projects its subject created *)
(* and no other; and edit, archive or delete under a token that holds      *)
(* WriteSelf only, on a project somebody else created, is answered         *)
(* not-found, makes no repository write and leaves the table as it was.    *)
(***************************************************************************)
C2_QueryIsolated ==
    (/\ last.op = "query" /\ last.svc
     /\ Granted(last.token) = {PROJECT_READ_SELF}
     /\ last.filters = {NoFilters})
        => last.projects =
            {id \in ProjectIds : store[id] # {} /\ Row(store, id).created_by = last.token.sub}

C2_WriteIsolated ==
    (/\ last'.op \in WriteOps /\ last'.svc
     /\ Granted(last'.token) = {PROJECT_WRITE_SELF}
     /\ store[last'.id] # {}
     /\ Row(store, last'.id).created_by # last'.token.sub)
        => /\ last'.status = 404
           /\ last'.calls = <<"find_by_id">>
           /\ store' = store

C2_SelfScopedIsolation == [][C2_QueryIsolated' /\ C2_WriteIsolated]_vars

(***************************************************************************)
(* C3.  get_project_by_id, edit_project, archive_project and               *)
(* delete_project called with an owner restriction o for an id that is not *)
(* stored, or is stored with another creator, answer not-found, the same   *)
(* in both cases, call no repository write and leave the table unchanged;  *)
(* and a repository write is made only after find_by_id gave a project     *)
(* that passes the owner restriction of the call.                          *)
(***************************************************************************)
C3_Step ==
    \* a call that the service answers from its find_by_id
    /\ (/\ last' # last /\ requests' = requests
        /\ last'.svc /\ last'.op \in {"get"} \cup WriteOps) =>
            LET p == last'.id
                o == last'.owner
                missing == store[p] = {}
                foreign == store[p] # {} /\ Row(store, p).created_by # o
            IN  (o # None /\ (missing \/ foreign)) =>
                    /\ last'.status = 404
                    /\ last'.projects = {}
                    /\ last'.calls = <<"find_by_id">>
                    /\ store' = store
    \* a call that goes on to its write
    /\ \A slot \in Slots :
        (/\ requests[slot].op = "none"
         /\ requests'[slot].op \in WriteOps) =>
            LET p == requests'[slot].id
                o == requests'[slot].owner_id
            IN  /\ store' = store
                /\ store[p] # {}
                /\ o # None => Row(store, p).created_by = o
                /\ requests'[slot].fetched = find_by_id(store, p)
    \* a write of the repository
    /\ store' # store =>
        \E slot \in Slots :
            /\ requests[slot].op \in WriteOps \cup {"create"}
            /\ requests[slot].pc \in {"save_execute", "archive_execute", "delete_execute"}
            /\ requests'[slot].pc # requests[slot].pc
            /\ \A id \in ProjectIds \ {requests[slot].id} : store'[id] = store[id]
            /\ requests[slot].op \in WriteOps =>
                    \E project \in requests[slot].fetched :
                        /\ project.id = requests[slot].id
                        /\ requests[slot].owner_id # None
                                => project.created_by.id = requests[slot].owner_id
    \* the answer of a call that wrote
    /\ (/\ last' # last /\ last'.svc
        /\ \E i \in 1..Len(last'.calls) : last'.calls[i] \in {"save", "archive", "delete"}
        /\ last'.op \in WriteOps) =>
            /\ last'.calls[1] = "find_by_id"
            /\ \E slot \in Slots :
                    /\ requests[slot].op = last'.op
                    /\ requests[slot].fetched # {}
                    /\ requests'[slot] = Done

C3_OwnerMismatchIsNotFound == [][C3_Step]_vars

\* A delete (edit, archive) with an owner restriction was answered not-found
\* for a project that is stored, created by somebody else.
C3_Witness ==
    /\ last.op \in WriteOps /\ last.svc /\ last.status = 404
    /\ last.owner # None
    /\ store[last.id] # {}
    /\ Row(store, last.id).created_by # last.owner

(***************************************************************************)
(* C4.  query_projects with an owner restriction o returns only projects   *)
(* that o created and that meet every criterion the caller gave (none when *)
(* the caller asked for another creator); without an owner restriction the *)
(* caller's filters go to find unchanged.                                  *)
(***************************************************************************)
\* What a criterion of the caller asks of a row.
Meets(rec, filters) ==
    /\ filters.name_contains # None => Lower(rec.name) = Lower(filters.name_contains)
    /\ filters.description_contains # None
            => Lower(rec.description) = Lower(filters.description_contains)
    /\ filters.start_date_from # None
            => toordinal(rec.start_date) >= toordinal(filters.start_date_from)
    /\ filters.start_date_to # None
            => toordinal(rec.start_date) <= toordinal(filters.start_date_to)
    /\ filters.end_date_from # None
            => toordinal(rec.end_date) >= toordinal(filters.end_date_from)
    /\ filters.end_date_to # None
            => toordinal(rec.end_date) <= toordinal(filters.end_date_to)
    /\ filters.created_by # None => rec.created_by = filters.created_by
    /\ \A b \in filters.archived : rec.archived = b

C4_OwnerAndFilters ==
    (last.op = "query" /\ last.svc) =>
        \A filters \in last.filters :
            IF last.owner # None
            THEN /\ \A id \in last.projects :
                        /\ Row(store, id).created_by = last.owner
                        /\ Meets(Row(store, id), filters)
                 /\ filters.created_by \notin {None, last.owner} => last.projects = {}
            ELSE last.find_specs = {filters}

(***************************************************************************)
(* C5.  Under a validly signed, unexpired token whose scopes are among the *)
(* four, authorization succeeds exactly when the granted scopes meet the   *)
(* required pair; when they do not, the answer is 403 and the operation is *)
(* not executed.                                                           *)
(***************************************************************************)
C5_AuthorizedIffIntersects ==
    (/\ last.op \in ReadOps \cup WriteOps \cup {"create"}
     /\ last.token.kind = "signed" /\ ~Expired(last.token, last.at)
     /\ SeqRange(last.token.scopes) \subseteq ScopeValues)
        => LET meets == Granted(last.token) \cap RequiredScopes(last.op) # {}
           IN  /\ (last.actor # {}) <=> meets
               /\ ~meets => (last.status = 403 /\ ~last.svc)

(***************************************************************************)
(* C6.  A malformed, badly signed or expired token is answered 401 on      *)
(* every endpoint, whatever it claims; 403 is the answer only to a token   *)
(* that verified and holds no required scope; neither failure attaches an  *)
(* Actor or runs an operation; an Actor is attached only when              *)
(* authorization succeeded.                                                *)
(***************************************************************************)
C6_InvalidTokenIs401 ==
    (last.op # "none") =>
        LET invalid == last.token.kind # "signed" \/ Expired(last.token, last.at)
            meets == Granted(last.token) \cap RequiredScopes(last.op) # {}
        IN  /\ invalid => last.status = 401
            /\ last.status = 403 => (~invalid /\ ~meets)
            /\ last.status \in {401, 403} => (last.actor = {} /\ ~last.svc)
            /\ last.actor # {} => (~invalid /\ meets)

(***************************************************************************)
(* C7.  A correctly signed, unexpired token with a scopes claim outside    *)
(* the four scope values is answered 401; no Actor is attached, no         *)
(* operation runs.                                                         *)
(***************************************************************************)
C7_UnknownScopeIs401 ==
    (/\ last.op # "none"
     /\ last.token.kind = "signed" /\ ~Expired(last.token, last.at)
     /\ ~(SeqRange(last.token.scopes) \subseteq ScopeValues))
        => (last.status = 401 /\ last.actor = {} /\ ~last.svc)

(***************************************************************************)
(* C8.  A token issued at t0 with a ttl in 1..2400 verifies at every time  *)
(* before t0 + ttl, and is answered 401 at every time at or after          *)
(* t0 + ttl.  Stated for an actor id that is a UUID and for an endpoint    *)
(* whose required scopes the token holds: the Actor attached is then the   *)
(* one the token was issued for.                                           *)
(***************************************************************************)
C8_ValidUntilExpiry ==
    (/\ issued.status = 200 /\ last.op # "none"
     /\ last.token \in issued.token
     /\ UUID_validate_value(issued.header.plain)
     /\ Granted(last.token) \cap RequiredScopes(last.op) # {})
        => LET t0 == issued.at
               ttl == IF issued.ttl = {} THEN 1200 ELSE CHOOSE n \in issued.ttl : TRUE
           IN  ttl \in 1..2400 =>
                 IF last.at < t0 + ttl
                 THEN /\ last.status # 401
                      /\ last.actor # {}
                      /\ TheActor.user_id = issued.header.plain
                      /\ SeqRange(TheActor.scopes) = Granted(last.token)
                 ELSE last.status = 401 /\ last.actor = {}

(***************************************************************************)
(* C9.  Every actor id the issuer signs a token for is one the verifier    *)
(* rebuilds: the token, presented before it expires to an endpoint whose   *)
(* required scopes it holds, yields an Actor with that user_id.            *)
(***************************************************************************)
C9_IssuedSubjectVerifies ==
    (/\ issued.status = 200 /\ last.op # "none"
     /\ last.token \in issued.token
     /\ last.at < last.token.exp
     /\ Granted(last.token) \cap RequiredScopes(last.op) # {})
        => (last.actor # {} /\ TheActor.user_id = issued.header.plain)

(***************************************************************************)
(* C10.  A token is issued only when the requested scopes, the strings     *)
(* that are no scope value dropped, are not empty and the ttl is at most   *)
(* 2400; otherwise the answer is a 4xx and no token.  An issued token has  *)
(* sub = the decrypted actor id, scopes = the recognised requested scopes  *)
(* and exp = iat + ttl, the ttl being 1200 when the request gives none.    *)
(***************************************************************************)
C10_IssuanceValidation ==
    (issued.op = "token") =>
        LET recognised ==
                IF issued.scopes = {} THEN <<>>
                ELSE SelectSeq(CHOOSE v \in issued.scopes : TRUE, LAMBDA v : v \in ScopeValues)
            ttl == IF issued.ttl = {} THEN 1200 ELSE CHOOSE n \in issued.ttl : TRUE
            acceptable == recognised # <<>> /\ ttl <= 2400
        IN  /\ issued.token # {} => acceptable
            /\ ~acceptable => (issued.token = {} /\ issued.status \in 400..499)
            /\ \A tok \in issued.token :
                    /\ issued.status = 200
                    /\ tok.kind = "signed"
                    /\ tok.sub = issued.header.plain
                    /\ tok.scopes = recognised
                    /\ tok.iat = issued.at
                    /\ tok.exp = tok.iat + ttl

(***************************************************************************)
(* C11.  An X-Actor-ID header that is no base64, is malformed or does not  *)
(* decrypt under the service's key ends the issuance request in an         *)
(* authorization failure (401) and in no 500-class fault, and no token is  *)
(* issued.  (A body that fails validation is answered before the header is *)
(* read.)                                                                  *)
(***************************************************************************)
C11_BadHeaderIs401 ==
    (issued.op = "token" /\ get_actor_id_from_header(issued.header) = {}) =>
        /\ issued.token = {}
        /\ issued.status \notin 500..599
        /\ AccessTokenRequest(issued.scopes, issued.ttl) # {} => issued.status = 401

(***************************************************************************)
(* ProjectServices and the Project aggregate, called directly.             *)
(***************************************************************************)
\* The revision log of the aggregate in hand grows to MaxRevisions entries,
\* its member list, by Team.add_member, to MaxMembers.
MaxRevisions == 3
MaxMembers == 2

\* The aggregate in hand: the one the last direct call gave.
InHand == CHOOSE project \in aggregate.project : TRUE

\* ProjectServices.create_project(payload), payload.created_by given.
Do_create_project(slot, id, payload) ==
    create_project_select(slot, id, payload, Direct)

\* ProjectServices.get_project_by_id(id, owner_id)
Do_get_project_by_id(id, owner_id) ==
    /\ aggregate' = DirectCall("get_project_by_id", [id |-> id, owner_id |-> owner_id],
                               {}, FALSE,
                               ProjectServices_get_project_by_id(store, id, owner_id))
    /\ UNCHANGED <<now, store, issued, last, requests, deleted>>

\* ProjectServices.edit_project(id, edit, owner_id)
Do_edit_project(slot, id, edit, owner_id) ==
    edit_project_fetch(slot, id, edit, owner_id, Direct)

\* ProjectServices.delete_project(id, owner_id)
Do_delete_project(slot, id, owner_id) ==
    delete_project_fetch(slot, id, owner_id, Direct)

\* A call of a method of Project or of its Team on the aggregate in hand.
Do_method(op, input, r) ==
    /\ aggregate.project # {}
    /\ aggregate' = DirectCall(op, input, aggregate.project, r.raised, {r.project})
    /\ UNCHANGED <<now, store, issued, last, requests, deleted>>

\* Project.add_member(user, role)
Do_add_member(user_id, role) ==
    /\ aggregate.project # {}
    /\ Len(InHand.revisions) < MaxRevisions
    /\ Do_method("add_member", [user_id |-> user_id, role |-> role],
                 Project_add_member(InHand, User(user_id), role))

\* Project.remove_member_role(user_id, role)
Do_remove_member_role(user_id, role) ==
    /\ aggregate.project # {}
    /\ Len(InHand.revisions) < MaxRevisions
    /\ Do_method("remove_member_role", [user_id |-> user_id, role |-> role],
                 Project_remove_member_role(InHand, user_id, role))

\* Project.remove_member(user_id)
Do_remove_member(user_id) ==
    /\ aggregate.project # {}
    /\ Len(InHand.revisions) < MaxRevisions
    /\ Do_method("remove_member", [user_id |-> user_id, role |-> None],
                 Project_remove_member(InHand, user_id))

\* Project.create_revision(change_content)
Do_create_revision(change_content) ==
    /\ aggregate.project # {}
    /\ Len(InHand.revisions) < MaxRevisions
    /\ Do_method("create_revision", change_content,
                 [raised |-> FALSE,
                  project |-> Project_create_revision(InHand, change_content)])

\* project.team.add_member(user, role)
Do_Team_add_member(user_id, role) ==
    /\ aggregate.project # {}
    /\ Len(InHand.team.members) < MaxMembers
    /\ Do_method("Team.add_member", [user_id |-> user_id, role |-> role],
                 [raised |-> FALSE,
                  project |-> [InHand EXCEPT
                                !.team = Team_add_member(@, User(user_id), role)]])

\* project.team.remove_member(user_id)
Do_Team_remove_member(user_id) ==
    /\ aggregate.project # {}
    /\ Do_method("Team.remove_member", [user_id |-> user_id, role |-> None],
                 [raised |-> FALSE,
                  project |-> [InHand EXCEPT !.team = Team_remove_member(@, user_id)]])

\* project.team.update_member_role(user_id, role), role a Role or None
Do_Team_update_member_role(user_id, role) ==
    /\ aggregate.project # {}
    /\ LET r == Team_update_member_role(InHand.team, user_id, role)
       IN  Do_method("Team.update_member_role", [user_id |-> user_id, role |-> role],
                     [raised |-> r.raised, project |-> [InHand EXCEPT !.team = r.team]])

\* The payloads of create_project and the bodies of edit_project.
PayloadInputs ==
    [name : Names, description : Descriptions, start_date : Dates, end_date : Dates,
     created_by : {User(u) : u \in UserIds}]

EditInputs ==
    [name : {None, "beta"}, description : {None, ""},
     start_date : {None, "2025-06-30"}, end_date : {None, "2025-01-01"}]

\* The tokens of the clients that create through the endpoint.
CreatorTokens ==
    {jwt_encode(UserA, <<"projects.write">>, now, now + 1),
     jwt_encode(UserB, <<"projects:self.write">>, now, now + 1)}

\* The table without a row.
EmptyTable == [id \in ProjectIds |-> {}]

\* The payload of the project of SpecEdits, SpecAggregate and
\* SpecInterleaved.
PlanPayload(created_by) ==
    [name |-> "Alpha", description |-> "plan", start_date |-> "2025-01-01",
     end_date |-> "2025-06-30", created_by |-> User(created_by)]

(***************************************************************************)
(* SpecServices: projects are created, by ProjectServices.create_project   *)
(* under every payload or through POST /projects, while the table is       *)
(* empty, and fetched by direct calls of the service.                      *)
(***************************************************************************)
NextServices ==
    \/ \E slot \in InFlightSlots, id \in ProjectIds, payload \in PayloadInputs :
            /\ Arrives(slot) /\ store = EmptyTable
            /\ Do_create_project(slot, id, payload)
    \/ \E slot \in InFlightSlots, tok \in CreatorTokens, id \in ProjectIds :
            /\ Arrives(slot) /\ store = EmptyTable
            /\ ProjectController_create_project(slot, tok, id, AlphaPayload)
    \/ \E id \in ProjectIds, owner_id \in {None} \cup UserIds :
            Do_get_project_by_id(id, owner_id)
    \/ \E slot \in InFlightSlots : save_execute(slot)
    \/ \E slot \in InFlightSlots : save_commit(slot)

SpecServices == Init /\ [][NextServices]_vars

(***************************************************************************)
(* SpecEdits: one project is created and then edited by direct calls of    *)
(* ProjectServices.edit_project, under every body, in flight together,     *)
(* each slot taking one call.                                              *)
(***************************************************************************)
NextEdits ==
    \/ \E slot \in Slots :
            Unused(slot) /\ Do_create_project(slot, Project1, PlanPayload(UserA))
    \/ \E slot \in Slots, id \in ProjectIds, edit \in EditInputs,
          owner_id \in {None, UserB} :
            Unused(slot) /\ Do_edit_project(slot, id, edit, owner_id)
    \/ \E slot \in Slots : save_select(slot)
    \/ \E slot \in Slots : save_execute(slot)
    \/ \E slot \in Slots : save_commit(slot)

SpecEdits == Init /\ [][NextEdits]_vars

(***************************************************************************)
(* SpecAggregate: projects are created by the service while the table is   *)
(* empty, and the aggregate it returned is taken through the methods of    *)
(* Project and of its Team.                                                *)
(***************************************************************************)
\* What create_revision is given to record.
ChangeInputs == {[note |-> "x"]}

NextAggregate ==
    \/ \E slot \in InFlightSlots, id \in ProjectIds :
            /\ Arrives(slot) /\ store = EmptyTable
            /\ Do_create_project(slot, id, PlanPayload(UserA))
    \/ \E slot \in InFlightSlots : save_execute(slot)
    \/ \E slot \in InFlightSlots : save_commit(slot)
    \/ \E user_id \in UserIds, role \in Roles : Do_add_member(user_id, role)
    \/ \E user_id \in UserIds, role \in Roles : Do_remove_member_role(user_id, role)
    \/ \E user_id \in UserIds : Do_remove_member(user_id)
    \/ \E change_content \in ChangeInputs : Do_create_revision(change_content)
    \/ \E user_id \in UserIds : Do_Team_add_member(user_id, VIEWER)
    \/ \E user_id \in UserIds : Do_Team_remove_member(user_id)
    \/ \E user_id \in UserIds, role \in {EDITOR, None} :
            Do_Team_update_member_role(user_id, role)

SpecAggregate == Init /\ [][NextAggregate]_vars

(***************************************************************************)
(* SpecInterleaved: one project is created, and calls of edit_project and  *)
(* delete_project are in flight together, each slot taking one call.       *)
(***************************************************************************)
\* The bodies of the edits that race.
RaceEdits ==
    {[NoEdit EXCEPT !.name = "beta"],
     [NoEdit EXCEPT !.description = "", !.end_date = "2025-01-01"]}

NextInterleaved ==
    \/ \E slot \in Slots :
            /\ requests = [s \in Slots |-> Idle]
            /\ Unused(slot)
            /\ Do_create_project(slot, Project1, PlanPayload(UserA))
    \/ \E slot \in Slots, id \in ProjectIds, edit \in RaceEdits :
            Unused(slot) /\ Do_edit_project(slot, id, edit, None)
    \/ \E slot \in Slots, id \in ProjectIds :
            Unused(slot) /\ Do_delete_project(slot, id, None)
    \/ \E slot \in Slots : save_select(slot)
    \/ \E slot \in Slots : save_execute(slot)
    \/ \E slot \in Slots : save_commit(slot)
    \/ \E slot \in Slots : delete_execute(slot)
    \/ \E slot \in Slots : delete_commit(slot)

SpecInterleaved == Init /\ [][NextInterleaved]_vars

(***************************************************************************)
(* C12.  A Project that create_project has just made, whatever the name,   *)
(* description and dates of the payload, has exactly one revision, which   *)
(* describes the creation, and a Team whose only member is the creator,    *)
(* with role Owner; its creator is the created_by of the payload, which    *)
(* for a project created through POST /projects is the authenticated       *)
(* Actor.                                                                  *)
(***************************************************************************)
C12_FreshProject ==
    /\ (aggregate.op = "create_project") =>
            /\ aggregate.project # {}
            /\ LET payload == aggregate.input
                   project == InHand
               IN  /\ Len(project.revisions) = 1
                   /\ project.revisions[1].change_content =
                        [project_created |-> [name |-> payload.name,
                                              description |-> payload.description]]
                   /\ project.team.members = <<payload.created_by>>
                   /\ DOMAIN project.team.roles = {payload.created_by.id}
                   /\ project.team.roles[payload.created_by.id] = OWNER
                   /\ project.created_by = payload.created_by
                   /\ project.name = payload.name
                   /\ project.description = payload.description
                   /\ project.start_date = payload.start_date
                   /\ project.end_date = payload.end_date
    /\ (last.op = "create" /\ last.status = 200) =>
            \A id \in last.projects :
                /\ store[id] # {}
                /\ Row(store, id).created_by = TheActor.user_id

\* create_project has returned a project of user B named "beta".
C12_Witness ==
    /\ aggregate.op = "create_project" /\ aggregate.project # {}
    /\ InHand.created_by = User(UserB)
    /\ InHand.name = "beta" /\ InHand.description = "plan"
    /\ Len(InHand.revisions) = 1

(***************************************************************************)
(* C13.  The revision log is append-only and complete: a successful        *)
(* add_member, remove_member_role or remove_member (also of a user who is  *)
(* no member) is made on the aggregate in hand and leaves its log with     *)
(* exactly one more entry, the last, which describes the change, above the *)
(* entries it had, unchanged and in place; a call that fails appends       *)
(* nothing.  So the log before any run of calls is a prefix of the log     *)
(* after it.                                                               *)
(***************************************************************************)
MethodOps == {"add_member", "remove_member_role", "remove_member"}
OtherOps ==
    {"create_revision", "Team.add_member", "Team.remove_member", "Team.update_member_role"}

\* The change_content a successful call of a method records.
Describes(op, input) ==
    CASE op = "add_member" ->
            [added_member |-> [user_id |-> input.user_id, role |-> input.role]]
      [] op = "remove_member_role" ->
            [removed_role |-> [role |-> input.role, user_id |-> input.user_id]]
      [] op = "remove_member" ->
            [removed_member |-> input.user_id]

C13_Step ==
    /\ (aggregate' # aggregate /\ aggregate'.op \in MethodOps) =>
        LET before == aggregate.project
            earlier == InHand.revisions
            later == (CHOOSE project \in aggregate'.project : TRUE).revisions
        IN  /\ before # {}
            /\ aggregate'.before = before
            /\ aggregate'.project # {}
            /\ IF aggregate'.raised
               THEN later = earlier
               ELSE /\ Len(later) = Len(earlier) + 1
                    /\ SubSeq(later, 1, Len(earlier)) = earlier
                    /\ later[Len(later)].change_content =
                            Describes(aggregate'.op, aggregate'.input)
                    /\ \A i \in 1..Len(earlier) : later[Len(later)].id # earlier[i].id
    \* every operation on the aggregate in hand, create_revision and the
    \* methods of its Team too
    /\ (aggregate' # aggregate /\ aggregate'.op \in MethodOps \cup OtherOps) =>
        \A before \in aggregate.project : \A after \in aggregate'.project :
            /\ Len(after.revisions) >= Len(before.revisions)
            /\ SubSeq(after.revisions, 1, Len(before.revisions)) = before.revisions

C13_RevisionLogAppendOnly == [][C13_Step]_vars

\* remove_member of a user who was no member has added its revision.
C13_Witness ==
    /\ aggregate.op = "remove_member" /\ ~aggregate.raised
    /\ \A before \in aggregate.before :
            /\ \A i \in 1..Len(before.team.members) :
                    before.team.members[i].id # aggregate.input.user_id
            /\ Len(InHand.revisions) = Len(before.revisions) + 1

(***************************************************************************)
(* C14.  remove_member_role(user, role) succeeds exactly when the role the *)
(* user holds in the Team is the given role; it then clears the user's     *)
(* entry of the role mapping and appends one {removed_role: {role,         *)
(* user_id}} revision; otherwise (another role held, or none) it raises    *)
(* and leaves the Team and the revision log as they were.                  *)
(***************************************************************************)
C14_RemoveMemberRole ==
    (aggregate.op = "remove_member_role") =>
        \A before \in aggregate.before :
            LET after == InHand
                user_id == aggregate.input.user_id
                role == aggregate.input.role
            IN  /\ ~aggregate.raised <=> Get(before.team.roles, user_id) = role
                /\ ~aggregate.raised =>
                        /\ after.team.roles = Pop(before.team.roles, user_id)
                        /\ after.revisions =
                            Append(before.revisions,
                                   [id |-> after.revisions[Len(after.revisions)].id,
                                    timestamp |-> after.revisions[Len(after.revisions)].timestamp,
                                    change_content |->
                                        [removed_role |-> [role |-> role, user_id |-> user_id]]])
                /\ aggregate.raised =>
                        /\ after.team = before.team
                        /\ after.revisions = before.revisions

\* remove_member_role(u, Editor) has failed on a project where u is a Viewer.
C14_Witness ==
    /\ aggregate.op = "remove_member_role" /\ aggregate.raised
    /\ aggregate.input.role = EDITOR
    /\ \A before \in aggregate.before :
            Get(before.team.roles, aggregate.input.user_id) = VIEWER

(***************************************************************************)
(* C15.  Archival is one-way: a stored project whose archived flag is true *)
(* keeps it true through every query, get, edit and archive; only a delete *)
(* ends the archived state, by removing the project.                       *)
(***************************************************************************)
C15_Step ==
    \A id \in ProjectIds :
        (/\ store[id] # {} /\ Row(store, id).archived
         /\ ~\E slot \in Slots : /\ requests[slot].op = "delete"
                                 /\ requests[slot].pc = "delete_execute"
                                 /\ requests'[slot].pc = "delete_commit")
            => (store'[id] # {} /\ Row(store', id).archived)

C15_ArchivedStaysArchived == [][C15_Step]_vars

(***************************************************************************)
(* C16.  Team consistency: the Project that create_project returns has a   *)
(* Team whose member list holds the keys of the role mapping, each once,   *)
(* and every add_member, remove_member_role and remove_member made on a    *)
(* Project with such a Team leaves it with such a Team (also add_member of *)
(* a user who is a member).                                                *)
(***************************************************************************)
Consistent(project) ==
    LET members == project.team.members
    IN  /\ {members[i].id : i \in 1..Len(members)} = DOMAIN project.team.roles
        /\ \A i, j \in 1..Len(members) : members[i].id = members[j].id => i = j

C16_Step ==
    /\ (aggregate' # aggregate /\ aggregate'.op = "create_project") =>
            \A project \in aggregate'.project : Consistent(project)
    /\ (aggregate' # aggregate /\ aggregate'.op \in MethodOps) =>
            \A before \in aggregate'.before : \A after \in aggregate'.project :
                Consistent(before) => Consistent(after)

C16_TeamConsistent == [][C16_Step]_vars

(***************************************************************************)
(* C17.  In every aggregate the predicates follow the role mapping of the  *)
(* Team alone: is_owner(u) exactly when u's role is Owner, is_editor(u)    *)
(* exactly when it is Owner or Editor, is_viewer(u) exactly when u has a   *)
(* role; so is_owner(u) implies is_editor(u) implies is_viewer(u).         *)
(***************************************************************************)
C17_PredicatesFollowRoles ==
    \A project \in aggregate.project : \A u \in UserIds :
        LET role == Get(project.team.roles, u)
        IN  /\ Project_is_owner(project, u) <=> role = OWNER
            /\ Project_is_editor(project, u) <=> role \in {OWNER, EDITOR}
            /\ Project_is_viewer(project, u) <=> role # None
            /\ Project_is_owner(project, u) => Project_is_editor(project, u)
            /\ Project_is_editor(project, u) => Project_is_viewer(project, u)

(***************************************************************************)
(* C18.  A successful edit_project replaces exactly the fields among name, *)
(* description, start_date and end_date that the edit gives with a value   *)
(* that is not null, and saves the result; a field the edit does not give  *)
(* keeps the value it had, and the id, the creator, the creation           *)
(* timestamp, the Team and the revision log of the project are as they     *)
(* were fetched: the edit appends no revision.                             *)
(***************************************************************************)
\* The value of a field after an edit that gives it the value supplied.
Replaced(supplied, previous) == IF supplied # None THEN supplied ELSE previous

C18_Step ==
    \* the write of its save
    /\ \A slot \in Slots :
        (/\ requests[slot].op = "edit" /\ requests[slot].pc = "save_execute"
         /\ requests'[slot].pc # requests[slot].pc) =>
            LET edit == requests[slot].input.edit
                id == requests[slot].id
                old == Row(store, id)
                new == Row(store', id)
            IN  /\ requests'[slot].pc = "save_commit"
                /\ store[id] # {} /\ store'[id] # {}
                /\ requests[slot].fetched # {}
                /\ \A before \in requests[slot].fetched :
                        /\ new.name = Replaced(edit.name, before.name)
                        /\ new.description = Replaced(edit.description, before.description)
                        /\ new.start_date = Replaced(edit.start_date, before.start_date)
                        /\ new.end_date = Replaced(edit.end_date, before.end_date)
                /\ new.created_by = old.created_by
                /\ new.created_at = old.created_at
                /\ \A other \in ProjectIds \ {id} : store'[other] = store[other]
    \* the Project it returns
    /\ (aggregate' # aggregate /\ aggregate'.op = "edit_project" /\ aggregate'.project # {}) =>
        LET edit == aggregate'.input.edit
            after == CHOOSE project \in aggregate'.project : TRUE
        IN  /\ aggregate'.before # {}
            /\ \E slot \in Slots : /\ requests[slot].op = "edit"
                                   /\ requests[slot].pc = "save_commit"
                                   /\ requests'[slot] = Done
            /\ \A before \in aggregate'.before :
                    /\ after.name = Replaced(edit.name, before.name)
                    /\ after.description = Replaced(edit.description, before.description)
                    /\ after.start_date = Replaced(edit.start_date, before.start_date)
                    /\ after.end_date = Replaced(edit.end_date, before.end_date)
                    /\ after.id = before.id
                    /\ after.created_by = before.created_by
                    /\ after.created_at = before.created_at
                    /\ after.team = before.team
                    /\ after.revisions = before.revisions

C18_EditReplacesSuppliedFields == [][C18_Step]_vars

\* An edit that gave a new name and no description has been saved.
C18_Witness ==
    /\ aggregate.op = "edit_project" /\ aggregate.project # {}
    /\ aggregate.input.edit.name = "beta"
    /\ aggregate.input.edit.description = None
    /\ \A before \in aggregate.before :
            /\ before.name = "Alpha" /\ before.description = "plan"
            /\ InHand.name = "beta" /\ InHand.description = "plan"
    /\ store[aggregate.input.id] # {}
    /\ Row(store, aggregate.input.id).name = "beta"

(***************************************************************************)
(* C19.  Deletion is terminal under interleaving: once delete_project has  *)
(* returned True for a project id, no row of that id is in the table in    *)
(* any later state, whatever calls are in flight; an edit_project that     *)
(* fetched the project before the delete and saves after it does not bring *)
(* the project back.                                                       *)
(***************************************************************************)
C19_DeletedStaysDeleted == \A id \in deleted : store[id] = {}

(***************************************************************************)
(* C20.  Last writer wins, without merge: when two edit_project calls on   *)
(* one project both fetch before either saves, the save that executes last *)
(* leaves name, description, start_date and end_date of the row equal to   *)
(* those of the aggregate it saved; a field that only the earlier writer   *)
(* changed is back at the value the later writer fetched.  The save is the *)
(* UPDATE of the row it has selected: a save that selected no row, because *)
(* a delete_project came between, inserts, and its INSERT is refused when  *)
(* the other writer has inserted first, so that it has saved nothing.      *)
(***************************************************************************)
EditableFields == {"name", "description", "start_date", "end_date"}

C20_Step ==
    \A later \in Slots :
        (/\ requests[later].op = "edit" /\ requests[later].pc = "save_execute"
         /\ requests[later].existing
         /\ requests'[later].pc = "save_commit")
            => \A earlier \in requests[later].behind :
                (/\ earlier.op = "edit"
                 /\ store[requests[later].id] # {})
                    => LET saved == CHOOSE project \in requests[later].project : TRUE
                           fetched == CHOOSE project \in requests[later].fetched : TRUE
                           theirs == CHOOSE project \in earlier.project : TRUE
                           theirFetched == CHOOSE project \in earlier.fetched : TRUE
                           row == Row(store', requests[later].id)
                       IN  /\ store'[requests[later].id] # {}
                           /\ \A f \in EditableFields : row[f] = saved[f]
                           /\ \A f \in EditableFields :
                                (/\ theirs[f] # theirFetched[f]
                                 /\ requests[later].input.edit[f] = None)
                                    => /\ row[f] = fetched[f]
                                       /\ fetched[f] = theirFetched[f] => row[f] # theirs[f]

C20_LastWriterWins == [][C20_Step]_vars

\* Two edits raced: the save of the second, which gave no name, has undone
\* the name the first one wrote.
C20_Witness ==
    /\ aggregate.op = "edit_project" /\ aggregate.project # {}
    /\ aggregate.input.edit.name = None
    /\ \E earlier \in aggregate.behind :
            /\ earlier.op = "edit"
            /\ \E project \in earlier.project : project.name = "beta"
    /\ store[aggregate.input.id] # {}
    /\ Row(store, aggregate.input.id).name = "Alpha"
    /\ Row(store, aggregate.input.id).description = ""

=============================================================================
